---- MODULE Spec2Model ----
(***************************************************************************)
(* Video assembly of backend/server.py: the job dispatcher                 *)
(* (assemble_video), the assembly worker (process_video_background), the   *)
(* job status store (video_status, update_video_status, the persisted     *)
(* status files) and the status read with its recovery step               *)
(* (get_video_status).                                                     *)
(*                                                                         *)
(* The request handlers are `async def` functions without an await: they   *)
(* run one at a time on the event loop (variable h).  Each worker is a     *)
(* thread of its own (pc, wl) and interleaves with the handler that is     *)
(* running and with the other workers between any two of its steps.        *)
(***************************************************************************)
EXTENDS Integers, Sequences, FiniteSets, TLC

(* ------------------------------ bounds -------------------------------- *)
MaxJobs == 1
MaxCandidates == 2
MaxPersistFailures == 1
MaxFailedReads == 2

(* ------------------------- program constants -------------------------- *)
TopVideos == 3
ClipCap == 20
DefaultClipDuration == 10
FallbackAudioDuration == 60
WorkerMinSize == 10000
RecoveryMinSize == 50000
ExcerptLen == 100
RecoveryDefaultDuration == 60

(* --------------------------- the environment -------------------------- *)
\* Video ids: those uuid4 hands out in this process, and one an earlier
\* process handed out.
JobIds == 1..MaxJobs
OldIds == {0}
VideoIds == OldIds \cup JobIds
NoScriptId == ""
ScriptIds == {"s1", "s2", "s3"}
ReportedDurations == {6, 30}
ProbedDurations == {10}
FileSizes == {5000, 50000, 60000}
Digits == "0123456789"
LongStderr == Digits \o Digits \o Digits \o Digits \o Digits \o Digits
              \o Digits \o Digits \o Digits \o Digits \o Digits \o Digits
Stderrs == {"", LongStderr}
TimeoutText == "Command timed out after 600 seconds"
\* Download requests: the four types of file_paths and one that is not among
\* them; file ids of scripts, of a thumbnail and of the jobs' videos.
FileTypes == {"script", "audio", "thumbnail", "video", "image"}
FileIds == {"s1", "s2", "t1"} \cup {ToString(v) : v \in 1..MaxJobs}
ExceptionTexts == {"", "No such file or directory"}

VARIABLES
  started,        \* the startup event has run
  before,         \* ids that had a status file when the process started
  scripts,        \* ids with generated_content/scripts/<id>.txt
  audio,          \* ids with generated_content/audio/<id>.mp3
  thumbnails,     \* files matching generated_content/thumbnails/*.png
  video_status,   \* the in-memory table: video id -> record
  status_files,   \* generated_content/status/<id>.json: video id -> record
  video_files,    \* generated_content/videos/<id>.mp4: video id -> size, 0 = no file
  nextId,         \* the next video id uuid4 hands out
  pc,             \* per job: where its worker thread stands
  wl,             \* per job: the worker's arguments and locals
  h,              \* the request handler running on the event loop
  threads,        \* per job: how many worker threads were started
  first,          \* per job: the first record update_video_status wrote
  wlast,          \* per job: the status of the worker's latest record write
  persistFails,   \* how many status file writes have failed
  failed_reads    \* per id: how many status reads answered failed (counted up
                  \* to MaxFailedReads)

inputs == <<scripts, audio, thumbnails, before>>
store == <<video_status, status_files, persistFails, first>>
worker == <<pc, wl, wlast>>
vars == <<started, before, scripts, audio, thumbnails, video_status, status_files,
          video_files, nextId, pc, wl, h, threads, first, wlast, persistFails,
          failed_reads>>

(* ------------------------------ records ------------------------------- *)
NoRecord == [status |-> "", progress |-> 0 - 1, message |-> "", error |-> "",
             video_path |-> "", duration |-> 0 - 1, file_size |-> 0 - 1,
             clips_used |-> 0 - 1]

\* The dict update_video_status builds: the four fields it is given (the
\* timestamp is left out); the result fields are absent until .update adds them.
NewRecord(status, progress, message, error) ==
  [NoRecord EXCEPT !.status = status, !.progress = progress,
                   !.message = message, !.error = error]

Put(table, id, rec) ==
  [k \in DOMAIN table \cup {id} |-> IF k = id THEN rec ELSE table[k]]

EmptyTable == [k \in {} |-> NoRecord]

VideoPath(id) == "generated_content/videos/" \o ToString(id) \o ".mp4"

\* The worker's locals.  downloaded_clips holds one record per clip: the
\* index in its path (clip_<i>.mp4, counted from 1 here) and its duration.
\* nclips is len(downloaded_clips); ffmpeg_cmd tells which command the local
\* of that name holds ("concat" for the clips, "loop" for the thumbnail);
\* attempts counts the downloads tried and encoder_runs the calls of
\* subprocess.run on ffmpeg_cmd.
NoLocals == [script_id |-> "", stock_videos |-> <<>>, audio_duration |-> 0,
             downloaded_clips |-> <<>>, attempts |-> 0, file_size |-> 0,
             nclips |-> 0, ffmpeg_cmd |-> "", encoder_runs |-> 0,
             probe |-> ""]

\* The handler: its position, the request it serves (op with id, script_id
\* or file_type and file_id), its locals and its response (code with body,
\* or with media_type and filename for a file).
Idle == [pc |-> "idle", op |-> "", id |-> 0 - 1, script_id |-> "",
         status |-> NoRecord, alias |-> FALSE, file_size |-> 0,
         video_duration |-> 0, code |-> 0, body |-> NoRecord,
         file_type |-> "", file_id |-> "", media_type |-> "", filename |-> ""]

(* ----------------------- update_video_status -------------------------- *)
\* Replaces the table entry by a new dict and dumps it to the status file;
\* a failure of the file write is printed and swallowed.
\* update_video_status writing the file first and giving up, table
\* untouched, when that write fails.
update_video_status_file_first(video_id, status, progress, message, error) ==
  LET rec == NewRecord(status, progress, message, error) IN
  /\ \/ /\ video_status' = Put(video_status, video_id, rec)
        /\ status_files' = Put(status_files, video_id, rec)
        /\ persistFails' = persistFails
     \/ /\ persistFails < MaxPersistFailures
        /\ video_status' = video_status
        /\ status_files' = status_files
        /\ persistFails' = persistFails + 1
  /\ first' = IF first[video_id] = NoRecord
              THEN [first EXCEPT ![video_id] = rec] ELSE first

update_video_status(video_id, status, progress, message, error) ==
  LET rec == NewRecord(status, progress, message, error) IN
  /\ video_status' = Put(video_status, video_id, rec)
  /\ \/ /\ status_files' = Put(status_files, video_id, rec)
        /\ persistFails' = persistFails
     \/ /\ persistFails < MaxPersistFailures
        /\ status_files' = status_files
        /\ persistFails' = persistFails + 1
  /\ first' = IF first[video_id] = NoRecord
              THEN [first EXCEPT ![video_id] = rec] ELSE first

(* ------------------------------- Init --------------------------------- *)
OldRecords == {NewRecord("failed", 0, "", "Required files not found")}

Init ==
  /\ started = FALSE
  /\ scripts = {"s1", "s2"}
  /\ audio = {"s1", "s3"}
  /\ thumbnails \in {{}, {"t1"}}
  /\ video_status = EmptyTable
  /\ status_files \in {EmptyTable}
                      \cup {Put(EmptyTable, i, r) : i \in OldIds, r \in OldRecords}
  /\ before = DOMAIN status_files
  /\ video_files = [i \in VideoIds |-> 0]
  /\ nextId = 1
  /\ pc = [j \in JobIds |-> "none"]
  /\ wl = [j \in JobIds |-> NoLocals]
  /\ h = Idle
  /\ threads = [j \in JobIds |-> 0]
  /\ first = [i \in VideoIds |-> NoRecord]
  /\ wlast = [j \in JobIds |-> ""]
  /\ persistFails = 0
  /\ failed_reads = [i \in VideoIds |-> 0]

(* ------------------------------ startup ------------------------------- *)
\* clear_video_status: empties the table and removes the status files; a
\* file whose removal raises is left in place.
\* clear_video_status reading the files that are left back into the table.
clear_video_status_reloading ==
  \E kept \in SUBSET DOMAIN status_files :
    /\ status_files' = [k \in kept |-> status_files[k]]
    /\ video_status' = status_files'

clear_video_status ==
  /\ video_status' = EmptyTable
  /\ \E kept \in SUBSET DOMAIN status_files :
       status_files' = [k \in kept |-> status_files[k]]

startup_event ==
  /\ ~started
  /\ started' = TRUE
  /\ clear_video_status
  /\ UNCHANGED <<inputs, failed_reads, video_files, nextId, worker, h, threads, first, persistFails>>

(* --------------------------- assemble_video --------------------------- *)
\* The request carries no script_id: the HTTPException(400) raised inside the
\* try is caught by the handler's own `except Exception` and raised again as
\* a 500.
assemble_video_no_script_id ==
  /\ started
  /\ h.pc = "idle"
  /\ h' = [Idle EXCEPT !.pc = "reply", !.op = "assemble", !.script_id = NoScriptId,
                       !.code = 500]
  /\ UNCHANGED <<started, inputs, failed_reads, store, video_files, nextId, worker, threads>>

\* assemble_video_init without its initial status write.
assemble_video_init_unwritten(script_id) ==
  /\ started
  /\ h.pc = "idle"
  /\ nextId <= MaxJobs
  /\ nextId' = nextId + 1
  /\ h' = [Idle EXCEPT !.pc = "asm_thread", !.op = "assemble", !.id = nextId,
                       !.script_id = script_id]
  /\ UNCHANGED <<started, inputs, failed_reads, store, video_files, worker, threads>>

\* uuid4 and the initial update_video_status.
assemble_video_init(script_id) ==
  /\ started
  /\ h.pc = "idle"
  /\ nextId <= MaxJobs
  /\ update_video_status(nextId, "processing", 0, "Initializing video assembly...", "")
  /\ nextId' = nextId + 1
  /\ h' = [Idle EXCEPT !.pc = "asm_thread", !.op = "assemble", !.id = nextId,
                       !.script_id = script_id]
  /\ UNCHANGED <<started, inputs, failed_reads, video_files, worker, threads>>

\* assemble_video_start starting a second thread for the same id.
assemble_video_start_twice ==
  /\ h.pc = "asm_thread"
  /\ pc' = [pc EXCEPT ![h.id] = "start"]
  /\ wl' = [wl EXCEPT ![h.id] = [NoLocals EXCEPT !.script_id = h.script_id]]
  /\ threads' = [threads EXCEPT ![h.id] = @ + 2]
  /\ h' = [h EXCEPT !.pc = "reply", !.code = 200,
                    !.body = NewRecord("processing", 0 - 1,
                                       "Video assembly started in background", "")]
  /\ UNCHANGED <<started, inputs, failed_reads, store, video_files, nextId, wlast>>

\* assemble_video_start answering with the status "queued".
assemble_video_start_queued ==
  /\ h.pc = "asm_thread"
  /\ pc' = [pc EXCEPT ![h.id] = "start"]
  /\ wl' = [wl EXCEPT ![h.id] = [NoLocals EXCEPT !.script_id = h.script_id]]
  /\ threads' = [threads EXCEPT ![h.id] = @ + 1]
  /\ h' = [h EXCEPT !.pc = "reply", !.code = 200,
                    !.body = NewRecord("queued", 0 - 1,
                                       "Video assembly started in background", "")]
  /\ UNCHANGED <<started, inputs, failed_reads, store, video_files, nextId, wlast>>

\* thread.start() and the return of the response.
assemble_video_start ==
  /\ h.pc = "asm_thread"
  /\ pc' = [pc EXCEPT ![h.id] = "start"]
  /\ wl' = [wl EXCEPT ![h.id] = [NoLocals EXCEPT !.script_id = h.script_id]]
  /\ threads' = [threads EXCEPT ![h.id] = @ + 1]
  /\ h' = [h EXCEPT !.pc = "reply", !.code = 200,
                    !.body = NewRecord("processing", 0 - 1,
                                       "Video assembly started in background", "")]
  /\ UNCHANGED <<started, inputs, failed_reads, store, video_files, nextId, wlast>>

\* The response leaves the server; the event loop takes the next request.
Reply ==
  /\ h.pc = "reply"
  /\ h' = Idle
  /\ UNCHANGED <<started, inputs, failed_reads, store, video_files, nextId, worker, threads>>

(* ---------------------- process_video_background ---------------------- *)
Goto(j, to) == pc' = [pc EXCEPT ![j] = to]

\* The function returns: the thread ends and its locals with it (the count
\* of encoder runs and the outcome of the audio probe are kept).
Return(j) ==
  /\ pc' = [pc EXCEPT ![j] = "done"]
  /\ wl' = [wl EXCEPT ![j] = [NoLocals EXCEPT !.encoder_runs = wl[j].encoder_runs,
                                           !.probe = wl[j].probe]]

\* The step after the last read of stock_videos and downloaded_clips: wl
\* keeps the locals the code still reads.
ClipsDone(j) ==
  [wl[j] EXCEPT !.stock_videos = <<>>, !.downloaded_clips = <<>>, !.attempts = 0]

\* A status write of worker j.  The new dict replaces the table entry, so a
\* status read that holds the old dict no longer shares it with the table.
WorkerWrite(j, status, progress, message, error) ==
  /\ update_video_status(j, status, progress, message, error)
  /\ wlast' = [wlast EXCEPT ![j] = status]
  /\ h' = IF h.id = j THEN [h EXCEPT !.alias = FALSE] ELSE h

WorkerFrame == UNCHANGED <<started, inputs, failed_reads, nextId, threads>>

InputsPresent(j) == wl[j].script_id \in scripts /\ wl[j].script_id \in audio

Worker_Start(j) ==
  /\ pc[j] = "start"
  /\ WorkerWrite(j, "processing", 10, "Starting video assembly...", "")
  /\ Goto(j, "validate")
  /\ UNCHANGED <<wl, video_files>> /\ WorkerFrame

Worker_MissingFiles(j) ==
  /\ pc[j] = "validate"
  /\ ~InputsPresent(j)
  /\ WorkerWrite(j, "failed", 0, "", "Required files not found")
  /\ Return(j)
  /\ UNCHANGED video_files /\ WorkerFrame

\* Worker_NoThumbnail without its return: the worker goes on to the search.
Worker_NoThumbnail_continuing(j) ==
  /\ pc[j] = "validate"
  /\ InputsPresent(j)
  /\ thumbnails = {}
  /\ WorkerWrite(j, "processing", 30, "Getting stock video clips...", "")
  /\ Goto(j, "search")
  /\ UNCHANGED <<wl, video_files>> /\ WorkerFrame

Worker_NoThumbnail(j) ==
  /\ pc[j] = "validate"
  /\ InputsPresent(j)
  /\ thumbnails = {}
  /\ WorkerWrite(j, "failed", 0, "", "No thumbnail found for video creation")
  /\ Return(j)
  /\ UNCHANGED video_files /\ WorkerFrame

Worker_Validated(j) ==
  /\ pc[j] = "validate"
  /\ InputsPresent(j)
  /\ thumbnails # {}
  /\ WorkerWrite(j, "processing", 30, "Getting stock video clips...", "")
  /\ Goto(j, "search")
  /\ UNCHANGED <<wl, video_files>> /\ WorkerFrame

\* What the provider answers: a sequence of videos, each with its reported
\* duration and whether any of its files carries a link.
ProviderVideos == [duration : ReportedDurations, link : BOOLEAN]
ProviderAnswers == UNION {[1..n -> ProviderVideos] : n \in 0..MaxCandidates}

Min(a, b) == IF a <= b THEN a ELSE b

\* data.get('videos', [])[:3], keeping the videos that have a link.
RECURSIVE StockVideos(_, _)
StockVideos(answer, i) ==
  IF i > Min(Len(answer), TopVideos) THEN <<>>
  ELSE IF answer[i].link
       THEN <<answer[i].duration>> \o StockVideos(answer, i + 1)
       ELSE StockVideos(answer, i + 1)

\* The search answered 200.
Worker_Search(j) ==
  /\ pc[j] = "search"
  /\ \E answer \in ProviderAnswers :
       wl' = [wl EXCEPT ![j].stock_videos = StockVideos(answer, 1)]
  /\ WorkerWrite(j, "processing", 60, "Downloading and processing stock videos...", "")
  /\ Goto(j, "probe_audio")
  /\ UNCHANGED video_files /\ WorkerFrame

\* Worker_SearchFailed with the exception of the search ending the job.
Worker_SearchFailed_fatal(j) ==
  /\ pc[j] = "search"
  /\ WorkerWrite(j, "failed", 0, "", "Error fetching stock videos")
  /\ Return(j)
  /\ UNCHANGED video_files /\ WorkerFrame

\* The search raised, timed out or answered another status: no stock videos.
Worker_SearchFailed(j) ==
  /\ pc[j] = "search"
  /\ wl' = [wl EXCEPT ![j].stock_videos = <<>>]
  /\ WorkerWrite(j, "processing", 60, "Downloading and processing stock videos...", "")
  /\ Goto(j, "probe_audio")
  /\ UNCHANGED video_files /\ WorkerFrame

\* ffprobe on the audio: its value, or 60.0 when it prints nothing, fails or
\* times out.
AudioDurations == ProbedDurations \cup {FallbackAudioDuration}

\* How the probe ends: stdout holds a number, stdout is empty, or
\* subprocess.run or float() raises (non-zero exit with unparsable output,
\* timeout after 10 seconds).
ProbeOutcomes == {"value", "empty", "exception"}

\* AudioDuration leaving the duration at 0 when the probe gives no number.
AudioDuration_unset(outcome, value) ==
  IF outcome = "value" THEN value ELSE 0

AudioDuration(outcome, value) ==
  IF outcome = "value" THEN value ELSE FallbackAudioDuration

\* Stock videos were found: the dynamic branch begins.
Worker_ProbeDynamic(j) ==
  /\ pc[j] = "probe_audio"
  /\ wl[j].stock_videos # <<>>
  /\ \E o \in ProbeOutcomes, v \in ProbedDurations :
       wl' = [wl EXCEPT ![j].audio_duration = AudioDuration(o, v), ![j].probe = o]
  /\ WorkerWrite(j, "processing", 50, "Downloading stock video clips...", "")
  /\ Goto(j, "download")
  /\ UNCHANGED video_files /\ WorkerFrame

\* No stock videos: the raise at the end of the try lands in the handler
\* that builds the static command.
Worker_ProbeStatic(j) ==
  /\ pc[j] = "probe_audio"
  /\ wl[j].stock_videos = <<>>
  /\ \E o \in ProbeOutcomes, v \in ProbedDurations :
       wl' = [wl EXCEPT ![j].audio_duration = AudioDuration(o, v), ![j].probe = o]
  /\ WorkerWrite(j, "processing", 80, "Creating static video with thumbnail...", "")
  /\ Goto(j, "static")
  /\ UNCHANGED video_files /\ WorkerFrame

(* The clip loop of the dynamic branch. *)
\* What one iteration meets: the download fails (exception or status other
\* than 200), or it succeeds and ffprobe measures the clip, prints nothing,
\* or fails.
ClipOutcomes ==
  {[download |-> "failed", probe |-> "none", measured |-> 0]}
  \cup {[download |-> "ok", probe |-> p, measured |-> 0] : p \in {"empty", "failed"}}
  \cup {[download |-> "ok", probe |-> "ok", measured |-> d] : d \in ReportedDurations}

\* clip_duration of a downloaded clip.
ClipDuration(outcome, reported) ==
  CASE outcome.probe = "ok" -> outcome.measured
    [] outcome.probe = "empty" -> DefaultClipDuration
    [] OTHER -> Min(reported, ClipCap)

\* ClipLoop without the break: every stock video is tried.
RECURSIVE ClipLoop_nobreak(_, _, _, _, _, _)
ClipLoop_nobreak(stock, outcomes, audio_duration, i, clips, total) ==
  IF i > Len(stock) THEN [clips |-> clips, attempts |-> i - 1]
  ELSE IF outcomes[i].download = "failed"
       THEN ClipLoop_nobreak(stock, outcomes, audio_duration, i + 1, clips, total)
       ELSE LET d == ClipDuration(outcomes[i], stock[i])
                clip == [path |-> i, duration |-> d] IN
            ClipLoop_nobreak(stock, outcomes, audio_duration, i + 1,
                             Append(clips, clip), total + d)

\* The for loop over stock_videos from index i on: the clips downloaded and
\* the number of downloads attempted.
RECURSIVE ClipLoop(_, _, _, _, _, _)
ClipLoop(stock, outcomes, audio_duration, i, clips, total) ==
  IF i > Len(stock) THEN [clips |-> clips, attempts |-> i - 1]
  ELSE IF outcomes[i].download = "failed"
       THEN ClipLoop(stock, outcomes, audio_duration, i + 1, clips, total)
       ELSE LET d == ClipDuration(outcomes[i], stock[i])
                clip == [path |-> i, duration |-> d] IN
            IF total + d >= audio_duration
            THEN [clips |-> Append(clips, clip), attempts |-> i]
            ELSE ClipLoop(stock, outcomes, audio_duration, i + 1,
                          Append(clips, clip), total + d)

Downloads(j, outcomes) ==
  ClipLoop(wl[j].stock_videos, outcomes, wl[j].audio_duration, 1, <<>>, 0)

\* At least one clip was downloaded.
Worker_Downloaded(j) ==
  /\ pc[j] = "download"
  /\ \E outcomes \in [1..Len(wl[j].stock_videos) -> ClipOutcomes] :
       LET r == Downloads(j, outcomes) IN
       /\ r.clips # <<>>
       /\ wl' = [wl EXCEPT ![j].downloaded_clips = r.clips, ![j].attempts = r.attempts,
                           ![j].nclips = Len(r.clips)]
  /\ WorkerWrite(j, "processing", 70, "Creating dynamic video with stock clips...", "")
  /\ Goto(j, "clips_list")
  /\ UNCHANGED video_files /\ WorkerFrame

\* Worker_NoClips with the raise of "No stock clips downloaded successfully"
\* ending the job as failed.
Worker_NoClips_failing(j) ==
  /\ pc[j] = "download"
  /\ \E outcomes \in [1..Len(wl[j].stock_videos) -> ClipOutcomes] :
       Downloads(j, outcomes).clips = <<>>
  /\ WorkerWrite(j, "failed", 0, "", "No stock clips downloaded successfully")
  /\ Return(j)
  /\ UNCHANGED video_files /\ WorkerFrame

\* No clip was downloaded: the raise lands in the handler that builds the
\* static command.
Worker_NoClips(j) ==
  /\ pc[j] = "download"
  /\ \E outcomes \in [1..Len(wl[j].stock_videos) -> ClipOutcomes] :
       LET r == Downloads(j, outcomes) IN
       /\ r.clips = <<>>
       /\ wl' = [wl EXCEPT ![j].downloaded_clips = r.clips, ![j].attempts = r.attempts]
  /\ WorkerWrite(j, "processing", 80, "Creating static video with thumbnail...", "")
  /\ Goto(j, "static")
  /\ UNCHANGED video_files /\ WorkerFrame

\* The clip list is written and the concat command is built; the command is
\* not run on this path: control leaves the try with no exception and goes on
\* after its handlers.
Worker_DynamicCommand(j) ==
  /\ pc[j] = "clips_list"
  /\ WorkerWrite(j, "processing", 80, "Assembling dynamic video...", "")
  /\ Goto(j, "finalizing")
  /\ wl' = [wl EXCEPT ![j] = [ClipsDone(j) EXCEPT !.ffmpeg_cmd = "concat"]]
  /\ UNCHANGED video_files /\ WorkerFrame

\* Writing the clip list raises: the handler builds the static command.
Worker_DynamicError(j) ==
  /\ pc[j] = "clips_list"
  /\ WorkerWrite(j, "processing", 80, "Creating static video with thumbnail...", "")
  /\ Goto(j, "static")
  /\ wl' = [wl EXCEPT ![j] = ClipsDone(j)]
  /\ UNCHANGED video_files /\ WorkerFrame

Worker_StaticCommand(j) ==
  /\ pc[j] = "static"
  /\ WorkerWrite(j, "processing", 80, "Rendering final video...", "")
  /\ Goto(j, "ffmpeg")
  /\ wl' = [wl EXCEPT ![j] = [ClipsDone(j) EXCEPT !.ffmpeg_cmd = "loop"]]
  /\ UNCHANGED video_files /\ WorkerFrame

\* subprocess.run starts ffmpeg, which begins to write the output file.
Worker_EncoderStart(j) ==
  /\ pc[j] = "ffmpeg"
  /\ \E size \in {0} \cup FileSizes : video_files' = [video_files EXCEPT ![j] = size]
  /\ wl' = [wl EXCEPT ![j].encoder_runs = @ + 1]
  /\ Goto(j, "encoding")
  /\ UNCHANGED <<wlast, store, h>> /\ WorkerFrame

\* ffmpeg exits 0.
Worker_EncoderDone(j) ==
  /\ pc[j] = "encoding"
  /\ \E size \in {0} \cup FileSizes :
       /\ size >= video_files[j]
       /\ video_files' = [video_files EXCEPT ![j] = size]
  /\ Goto(j, "finalizing")
  /\ UNCHANGED <<wl, wlast, store, h>> /\ WorkerFrame

\* Excerpt giving the whole text.
Excerpt_whole(text) == text

Excerpt(text) == IF Len(text) > ExcerptLen THEN SubSeq(text, 1, ExcerptLen) ELSE text

\* RenderFailedError made of the excerpt alone.
RenderFailedError_bare(stderr) == Excerpt(stderr)

RenderFailedError(stderr) == "Video rendering failed: " \o Excerpt(stderr)

\* Worker_EncoderFailed without its return: the worker goes on after the
\* failed write.
Worker_EncoderFailed_continuing(j) ==
  /\ pc[j] = "encoding"
  /\ \E stderr \in Stderrs :
       WorkerWrite(j, "failed", 0, "", RenderFailedError(stderr))
  /\ Goto(j, "finalizing")
  /\ UNCHANGED <<wl, video_files>> /\ WorkerFrame

\* Worker_EncoderFailed running the command a second time instead of failing.
Worker_EncoderFailed_retrying(j) ==
  /\ pc[j] = "encoding"
  /\ WorkerWrite(j, "processing", 80, "Rendering final video...", "")
  /\ Goto(j, "ffmpeg")
  /\ UNCHANGED <<wl, video_files>> /\ WorkerFrame

\* ffmpeg exits with another code.
Worker_EncoderFailed(j) ==
  /\ pc[j] = "encoding"
  /\ \E stderr \in Stderrs :
       WorkerWrite(j, "failed", 0, "", RenderFailedError(stderr))
  /\ Return(j)
  /\ UNCHANGED video_files /\ WorkerFrame

ProcessingError(text) == "Processing error: " \o text

\* Worker_EncoderTimeout returning without a status write.
Worker_EncoderTimeout_silent(j) ==
  /\ pc[j] = "encoding"
  /\ Return(j)
  /\ UNCHANGED <<store, wlast, h, video_files>> /\ WorkerFrame

\* ffmpeg exceeds the 600 seconds.  subprocess.run is called inside the
\* `except Exception` handler of the inner try, so the TimeoutExpired it
\* raises is not seen by the `except subprocess.TimeoutExpired` clause next to
\* that handler: it reaches the outermost handler of the function.
Worker_EncoderTimeout(j) ==
  /\ pc[j] = "encoding"
  /\ WorkerWrite(j, "failed", 0, "", ProcessingError(TimeoutText))
  /\ Return(j)
  /\ UNCHANGED video_files /\ WorkerFrame

\* Worker_Unhandled with the exception escaping the thread unrecorded.
Worker_Unhandled_escaping(j) ==
  /\ pc[j] \in {"validate", "probe_audio", "ffmpeg"}
  /\ pc[j] = "validate" => (InputsPresent(j) /\ thumbnails # {})
  /\ Return(j)
  /\ UNCHANGED <<store, wlast, h, video_files>> /\ WorkerFrame

\* Any other exception: picking the newest of the thumbnails found (max with
\* os.path.getctime, reached only with the files present and the list not
\* empty), making the temporary directory, starting ffmpeg.
Worker_Unhandled(j) ==
  /\ pc[j] \in {"validate", "probe_audio", "ffmpeg"}
  /\ pc[j] = "validate" => (InputsPresent(j) /\ thumbnails # {})
  /\ \E text \in ExceptionTexts :
       WorkerWrite(j, "failed", 0, "", ProcessingError(text))
  /\ Return(j)
  /\ UNCHANGED video_files /\ WorkerFrame

Worker_Finalizing(j) ==
  /\ pc[j] = "finalizing"
  /\ WorkerWrite(j, "processing", 95, "Finalizing video file...", "")
  /\ Goto(j, "verify")
  /\ UNCHANGED <<wl, video_files>> /\ WorkerFrame

Worker_NotCreated(j) ==
  /\ pc[j] = "verify"
  /\ video_files[j] = 0
  /\ WorkerWrite(j, "failed", 0, "", "Video file was not created")
  /\ Return(j)
  /\ UNCHANGED video_files /\ WorkerFrame

TooSmallError(file_size) ==
  "Video file too small (" \o ToString(file_size) \o " bytes) - creation failed"

\* Worker_TooSmall running the encoder again after its failed write.
Worker_TooSmall_retrying(j) ==
  /\ pc[j] = "verify"
  /\ video_files[j] # 0
  /\ video_files[j] < WorkerMinSize
  /\ WorkerWrite(j, "failed", 0, "", TooSmallError(video_files[j]))
  /\ Goto(j, "ffmpeg")
  /\ UNCHANGED <<wl, video_files>> /\ WorkerFrame

Worker_TooSmall(j) ==
  /\ pc[j] = "verify"
  /\ video_files[j] # 0
  /\ video_files[j] < WorkerMinSize
  /\ WorkerWrite(j, "failed", 0, "", TooSmallError(video_files[j]))
  /\ Return(j)
  /\ UNCHANGED video_files /\ WorkerFrame

\* Worker_VerifyError removing the output file it could not inspect.
Worker_VerifyError_deleting(j) ==
  /\ pc[j] = "verify"
  /\ WorkerWrite(j, "failed", 0, "", "Could not verify video file")
  /\ Return(j)
  /\ video_files' = [video_files EXCEPT ![j] = 0]
  /\ WorkerFrame

\* os.path.exists or os.path.getsize raises.
Worker_VerifyError(j) ==
  /\ pc[j] = "verify"
  /\ WorkerWrite(j, "failed", 0, "", "Could not verify video file")
  /\ Return(j)
  /\ UNCHANGED video_files /\ WorkerFrame

Worker_Completed(j) ==
  /\ pc[j] = "verify"
  /\ video_files[j] # 0
  /\ ~(video_files[j] < WorkerMinSize)
  /\ wl' = [wl EXCEPT ![j].file_size = video_files[j]]
  /\ WorkerWrite(j, "completed", 100, "Video ready for download!", "")
  /\ Goto(j, "result")
  /\ UNCHANGED video_files /\ WorkerFrame

\* video_status[video_id].update({...}): changes in place the dict the table
\* holds at that moment, which a status read may be holding too.
WorkerResult(j, rec) ==
  [rec EXCEPT !.video_path = VideoPath(j), !.duration = wl[j].audio_duration,
              !.file_size = wl[j].file_size, !.clips_used = 1]

Worker_Result(j) ==
  /\ pc[j] = "result"
  /\ video_status' = [video_status EXCEPT ![j] = WorkerResult(j, @)]
  /\ h' = IF h.id = j /\ h.alias THEN [h EXCEPT !.status = WorkerResult(j, @)] ELSE h
  /\ Return(j)
  /\ UNCHANGED <<wlast, status_files, persistFails, first, video_files>>
  /\ WorkerFrame

process_video_background(j) ==
  \/ Worker_Start(j)
  \/ Worker_MissingFiles(j)
  \/ Worker_NoThumbnail(j)
  \/ Worker_Validated(j)
  \/ Worker_Search(j)
  \/ Worker_SearchFailed(j)
  \/ Worker_ProbeDynamic(j)
  \/ Worker_ProbeStatic(j)
  \/ Worker_Downloaded(j)
  \/ Worker_NoClips(j)
  \/ Worker_DynamicCommand(j)
  \/ Worker_DynamicError(j)
  \/ Worker_StaticCommand(j)
  \/ Worker_EncoderStart(j)
  \/ Worker_EncoderDone(j)
  \/ Worker_EncoderFailed(j)
  \/ Worker_EncoderTimeout(j)
  \/ Worker_Unhandled(j)
  \/ Worker_Finalizing(j)
  \/ Worker_NotCreated(j)
  \/ Worker_TooSmall(j)
  \/ Worker_VerifyError(j)
  \/ Worker_Completed(j)
  \/ Worker_Result(j)

(* -------------------------- get_video_status --------------------------- *)
ReadFrame == UNCHANGED <<started, inputs, failed_reads, video_files, nextId, worker, threads>>

\* get_video_status_memory entered while another handler is between two of
\* its steps, as if the handlers had a suspension point.
get_video_status_memory_anytime(video_id) ==
  /\ started
  /\ video_id \in DOMAIN video_status
  /\ h' = [Idle EXCEPT !.pc = "rd_check", !.op = "status", !.id = video_id,
                       !.status = video_status[video_id], !.alias = TRUE]
  /\ UNCHANGED store /\ ReadFrame

\* The id is in the table: status is the very dict the table holds.
get_video_status_memory(video_id) ==
  /\ started
  /\ h.pc = "idle"
  /\ video_id \in DOMAIN video_status
  /\ h' = [Idle EXCEPT !.pc = "rd_check", !.op = "status", !.id = video_id,
                       !.status = video_status[video_id], !.alias = TRUE]
  /\ UNCHANGED store /\ ReadFrame

\* The id is not in the table but has a status file: load it and cache it.
get_video_status_load(video_id) ==
  /\ started
  /\ h.pc = "idle"
  /\ video_id \notin DOMAIN video_status
  /\ video_id \in DOMAIN status_files
  /\ video_status' = Put(video_status, video_id, status_files[video_id])
  /\ h' = [Idle EXCEPT !.pc = "rd_check", !.op = "status", !.id = video_id,
                       !.status = status_files[video_id], !.alias = TRUE]
  /\ UNCHANGED <<status_files, persistFails, first>> /\ ReadFrame

\* get_video_status_not_found leaving an empty record for the id in the table.
get_video_status_not_found_caching(video_id) ==
  /\ started
  /\ h.pc = "idle"
  /\ video_id \notin DOMAIN video_status
  /\ video_id \notin DOMAIN status_files
  /\ video_status' = Put(video_status, video_id, NoRecord)
  /\ h' = [Idle EXCEPT !.pc = "reply", !.op = "status", !.id = video_id, !.code = 404]
  /\ UNCHANGED <<status_files, persistFails, first>> /\ ReadFrame

get_video_status_not_found(video_id) ==
  /\ started
  /\ h.pc = "idle"
  /\ video_id \notin DOMAIN video_status
  /\ video_id \notin DOMAIN status_files
  /\ h' = [Idle EXCEPT !.pc = "reply", !.op = "status", !.id = video_id, !.code = 404]
  /\ UNCHANGED store /\ ReadFrame

\* Recoverable taking a file of exactly 50000 bytes too.
Recoverable_inclusive(status, size) ==
  /\ status.status \in {"processing", "failed"}
  /\ size # 0
  /\ size >= RecoveryMinSize

\* The recovery applies: the status held is processing or failed and the
\* video file exists with more than 50000 bytes.
Recoverable(status, size) ==
  /\ status.status \in {"processing", "failed"}
  /\ size # 0
  /\ size > RecoveryMinSize

get_video_status_return ==
  /\ h.pc = "rd_check"
  /\ ~Recoverable(h.status, video_files[h.id])
  /\ h' = [h EXCEPT !.pc = "reply", !.code = 200, !.body = h.status]
  /\ failed_reads' = IF h.status.status = "failed"
                     THEN [failed_reads EXCEPT ![h.id] = Min(@ + 1, MaxFailedReads)]
                     ELSE failed_reads
  /\ UNCHANGED <<store, started, inputs, video_files, nextId, worker, threads>>

\* ffprobe on the video file: its duration, or None (0 here) when it prints
\* nothing, fails or times out.
get_video_status_probe ==
  /\ h.pc = "rd_check"
  /\ Recoverable(h.status, video_files[h.id])
  /\ \E d \in {0} \cup ProbedDurations :
       h' = [h EXCEPT !.pc = "rd_rewrite", !.file_size = video_files[h.id],
                      !.video_duration = d]
  /\ UNCHANGED store /\ ReadFrame

\* video_duration or status.get("duration", 60)
RecoveredDuration(video_duration, status) ==
  IF video_duration # 0 THEN video_duration
  ELSE IF status.duration # 0 - 1 THEN status.duration
  ELSE RecoveryDefaultDuration

\* status.update({...}) on the dict the read holds.
Recovered(status, video_id, file_size, video_duration) ==
  [status EXCEPT !.status = "completed", !.progress = 100,
                 !.message = "Video ready for download!",
                 !.file_size = file_size, !.video_path = VideoPath(video_id),
                 !.duration = RecoveredDuration(video_duration, status),
                 !.clips_used = 1]

\* get_video_status_rewrite keeping its record in the table only, without
\* the call of update_video_status that writes the status file.
get_video_status_rewrite_unsaved ==
  /\ h.pc = "rd_rewrite"
  /\ video_status' = Put(video_status, h.id,
                         Recovered(h.status, h.id, h.file_size, h.video_duration))
  /\ h' = [h EXCEPT !.pc = "rd_finish", !.alias = TRUE,
                    !.status = Recovered(h.status, h.id, h.file_size, h.video_duration)]
  /\ UNCHANGED <<status_files, persistFails, first>> /\ ReadFrame

\* status.update, video_status[video_id] = status, update_video_status: the
\* table ends with the new dict of update_video_status, the read keeps its own.
get_video_status_rewrite ==
  /\ h.pc = "rd_rewrite"
  /\ update_video_status(h.id, "completed", 100, "Video ready for download!", "")
  /\ h' = [h EXCEPT !.pc = "rd_finish", !.alias = FALSE,
                    !.status = Recovered(h.status, h.id, h.file_size, h.video_duration)]
  /\ ReadFrame

\* video_status[video_id].update({file_size, duration}) and return status.
get_video_status_finish ==
  /\ h.pc = "rd_finish"
  /\ video_status' = [video_status EXCEPT ![h.id] =
        [@ EXCEPT !.file_size = h.file_size,
                  !.duration = RecoveredDuration(h.video_duration, h.status)]]
  /\ h' = [h EXCEPT !.pc = "reply", !.code = 200, !.body = h.status]
  /\ UNCHANGED <<status_files, persistFails, first>> /\ ReadFrame

\* The record a status read answers with when it runs from its lookup to
\* its return on the table and the video file as they are.
ImmediateRead(video_id, video_duration) ==
  LET status == video_status[video_id] IN
    IF Recoverable(status, video_files[video_id])
    THEN Recovered(status, video_id, video_files[video_id], video_duration)
    ELSE status

get_video_status(video_id) ==
  \/ get_video_status_memory(video_id)
  \/ get_video_status_load(video_id)
  \/ get_video_status_not_found(video_id)

(* ---------------------------- download_file ---------------------------- *)
\* The keys of file_paths.
KnownFileTypes == {"script", "audio", "thumbnail", "video"}

\* os.path.exists(file_paths[file_type])
FileExists(file_type, file_id) ==
  CASE file_type = "script" -> file_id \in scripts
    [] file_type = "audio" -> file_id \in audio
    [] file_type = "thumbnail" -> file_id \in thumbnails
    [] file_type = "video" ->
         \E v \in VideoIds : ToString(v) = file_id /\ video_files[v] # 0

\* MediaType naming the audio type after the file extension.
MediaType_mp3(file_type) ==
  CASE file_type = "video" -> "video/mp4"
    [] file_type = "audio" -> "audio/mp3"
    [] file_type = "thumbnail" -> "image/png"
    [] OTHER -> "text/plain"

MediaType(file_type) ==
  CASE file_type = "video" -> "video/mp4"
    [] file_type = "audio" -> "audio/mpeg"
    [] file_type = "thumbnail" -> "image/png"
    [] OTHER -> "text/plain"

FileName(file_type, file_id) ==
  CASE file_type = "video" -> file_id \o ".mp4"
    [] file_type = "audio" -> file_id \o ".mp3"
    [] file_type = "thumbnail" -> file_id \o ".png"
    [] OTHER -> file_id \o ".txt"

DownloadFrame ==
  UNCHANGED <<started, inputs, failed_reads, store, video_files, nextId, worker, threads>>

\* download_file without the clause that raises an HTTPException again: the
\* 400 and the 404 are caught by `except Exception` and answered as 500.
download_file_converting(file_type, file_id) ==
  /\ started
  /\ h.pc = "idle"
  /\ LET request == [Idle EXCEPT !.pc = "reply", !.op = "download",
                                 !.file_type = file_type, !.file_id = file_id] IN
     IF file_type \notin KnownFileTypes \/ ~FileExists(file_type, file_id)
     THEN h' = [request EXCEPT !.code = 500]
     ELSE h' = [request EXCEPT !.code = 200,
                               !.media_type = MediaType(file_type),
                               !.filename = FileName(file_type, file_id)]
  /\ DownloadFrame

download_file(file_type, file_id) ==
  /\ started
  /\ h.pc = "idle"
  /\ LET request == [Idle EXCEPT !.pc = "reply", !.op = "download",
                                 !.file_type = file_type, !.file_id = file_id] IN
     IF file_type \notin KnownFileTypes
     THEN h' = [request EXCEPT !.code = 400]
     ELSE IF ~FileExists(file_type, file_id)
     THEN h' = [request EXCEPT !.code = 404]
     ELSE h' = [request EXCEPT !.code = 200,
                               !.media_type = MediaType(file_type),
                               !.filename = FileName(file_type, file_id)]
  /\ DownloadFrame

(* --------------------------- specification ---------------------------- *)
Next ==
  \/ startup_event
  \/ assemble_video_no_script_id
  \/ \E script_id \in ScriptIds : assemble_video_init(script_id)
  \/ assemble_video_start
  \/ \E video_id \in VideoIds : get_video_status(video_id)
  \/ get_video_status_return
  \/ get_video_status_probe
  \/ get_video_status_rewrite
  \/ get_video_status_finish
  \/ \E file_type \in FileTypes, file_id \in FileIds : download_file(file_type, file_id)
  \/ Reply
  \/ \E j \in JobIds : process_video_background(j)

Spec == Init /\ [][Next]_vars

\* The event loop runs a handler to its end, and every worker thread that
\* can take a step eventually takes one.
FairSpec ==
  /\ Spec
  /\ WF_vars(assemble_video_start)
  /\ \A j \in JobIds : WF_vars(process_video_background(j))

(* ------------------------------ claims -------------------------------- *)
Terminal(j) ==
  j \in DOMAIN video_status /\ video_status[j].status \in {"completed", "failed"}

\* C1: every job assemble created eventually has a stored status of
\* completed or failed, and keeps one: no job stays in processing forever
\* (checked under FairSpec).
C1_EventuallyTerminal ==
  \A j \in JobIds : (j \in DOMAIN video_status) ~> [](Terminal(j))

C1_Witness ==
  \E j \in JobIds : pc[j] = "done" /\ Terminal(j)

\* C2: when a worker has ended, on any path and after any exception, the
\* last record it wrote has status completed or failed, and the stored record
\* of its job has one of the two.
C2_FinalStatusWritten ==
  \A j \in JobIds :
    pc[j] = "done" => (wlast[j] \in {"completed", "failed"} /\ Terminal(j))

C2_Witness ==
  \E j \in JobIds :
    /\ pc[j] = "done"
    /\ wlast[j] = "failed"
    /\ j \in DOMAIN video_status
    /\ video_status[j].error \in {ProcessingError(t) : t \in ExceptionTexts \cup {TimeoutText}}

\* C3 (as claimed): from one write of a job's record to the next, the
\* progress never decreases while the status stays processing.
C3_ProgressMonotone ==
  [][\A j \in JobIds :
       (/\ j \in DOMAIN video_status
        /\ j \in DOMAIN video_status'
        /\ video_status[j].status = "processing"
        /\ video_status'[j].status = "processing")
       => video_status'[j].progress >= video_status[j].progress]_vars

HasOutput(rec) == rec.video_path # "" /\ rec.file_size > RecoveryMinSize

\* C4 (as claimed): a record with status completed, in the table or in the
\* response of a status read, has its video_path set and a file_size above
\* 50000.
C4_CompletedHasOutput ==
  /\ \A id \in DOMAIN video_status :
       video_status[id].status = "completed" => HasOutput(video_status[id])
  /\ (h.pc = "reply" /\ h.op = "status" /\ h.code = 200 /\ h.body.status = "completed")
       => HasOutput(h.body)

\* C5 (as claimed): the worker never marks a job completed whose output
\* file is not larger than 50000 bytes.
C5_SmallNeverCompleted ==
  \A j \in JobIds : pc[j] = "result" => wl[j].file_size > RecoveryMinSize

C7_MissingInputsRejected ==
  (/\ h.op = "assemble"
   /\ h.script_id # NoScriptId
   /\ ~(h.script_id \in scripts /\ h.script_id \in audio))
  => (h.pc = "reply" /\ h.code = 404 /\ h.id = 0 - 1)

\* C8 (as claimed): an assemble request without a script_id is answered 400,
\* and no job is created for it.
C8_NoScriptIdBadRequest ==
  (h.pc = "reply" /\ h.op = "assemble" /\ h.script_id = NoScriptId)
  => (h.code = 400 /\ h.id = 0 - 1)

AssembleReturned(j) == h.op = "assemble" /\ h.id = j /\ h.pc = "reply"

C10_OneWorkerPerJob ==
  \A j \in JobIds :
    /\ threads[j] <= 1
    /\ (pc[j] # "none") => (threads[j] = 1 /\ first[j] # NoRecord)
    /\ (j < nextId /\ ~(h.pc = "asm_thread" /\ h.id = j)) => threads[j] = 1
    /\ (j >= nextId) => threads[j] = 0

C10_Witness ==
  \E j \in JobIds : threads[j] = 1 /\ pc[j] = "done" /\ j \in DOMAIN video_status

\* C11: assemble answers 200 with the new job id and the status
\* "processing", whatever step its worker is at (the witness has a status
\* read answered while the worker has not taken a step); from the thread's
\* start on the job has a record in the table, and every status read of a
\* job assemble has returned for is answered 200, never 404.
C11_AssembleThenFound ==
  /\ \A j \in JobIds :
       AssembleReturned(j)
       => (h.code = 200 /\ h.body.status = "processing" /\ j = nextId - 1)
  /\ \A j \in JobIds : threads[j] >= 1 => j \in DOMAIN video_status
  /\ (h.op = "status" /\ h.pc = "reply" /\ h.id \in JobIds /\ threads[h.id] >= 1)
       => h.code = 200

C11_Witness ==
  /\ h.op = "status" /\ h.pc = "reply" /\ h.code = 200
  /\ h.id \in JobIds
  /\ pc[h.id] = "start"
  /\ h.body = NewRecord("processing", 0, "Initializing video assembly...", "")

\* C12: a status read takes the record of the table when the id is in it;
\* otherwise it takes the record of the id's status file (and caches it);
\* otherwise it answers 404 and leaves the table and the status files without
\* a record for the id.  A read that has nothing to reconcile answers 200
\* with the record it took.
C12_ReadLookup ==
  [][/\ (h.pc = "idle" /\ h'.op = "status" /\ h'.pc # "idle")
        => IF h'.id \in DOMAIN video_status
           THEN /\ h'.pc = "rd_check"
                /\ h'.status = video_status[h'.id]
                /\ video_status' = video_status
                /\ status_files' = status_files
           ELSE IF h'.id \in DOMAIN status_files
           THEN /\ h'.pc = "rd_check"
                /\ h'.status = status_files[h'.id]
                /\ video_status' = Put(video_status, h'.id, status_files[h'.id])
                /\ status_files' = status_files
           ELSE /\ h'.pc = "reply"
                /\ h'.code = 404
                /\ video_status' = video_status
                /\ status_files' = status_files
     /\ (h.pc = "rd_check" /\ h'.pc = "reply")
        => (h'.code = 200 /\ h'.body = h.status)]_vars

C12_Witness ==
  /\ h.op = "status" /\ h.pc = "reply" /\ h.code = 200
  /\ h.id \in OldIds
  /\ h.id \in DOMAIN status_files
  /\ h.body = status_files[h.id]
  /\ \A j \in JobIds : j \notin DOMAIN video_status

\* What a status read does when the record it took has status processing or
\* failed and the video file has more than 50000 bytes: its next step probes
\* the file, its rewrite stores a completed record in the table, and it
\* answers 200, completed, progress 100.
RecoveryCompletes ==
  /\ (h.pc = "rd_check" /\ Recoverable(h.status, video_files[h.id]) /\ h'.pc # h.pc)
       => h'.pc = "rd_rewrite"
  /\ (h.pc = "rd_rewrite" /\ h'.pc = "rd_finish")
       => (/\ h.status.status \in {"processing", "failed"}
           /\ video_status'[h.id].status = "completed"
           /\ video_status'[h.id].progress = 100)
  /\ (h.pc = "rd_finish" /\ h'.pc = "reply")
       => (h'.code = 200 /\ h'.body.status = "completed" /\ h'.body.progress = 100)

C14_ReconciliationIdempotent ==
  (/\ h.op = "status" /\ h.pc = "reply" /\ h.code = 200
   /\ h.file_size > RecoveryMinSize
   /\ video_files[h.id] = h.file_size)
  => \A d \in {0} \cup ProbedDurations :
       LET second == ImmediateRead(h.id, d) IN
         /\ h.body.status = "completed"
         /\ second.status = "completed"
         /\ second.video_path = h.body.video_path
         /\ second.file_size = h.body.file_size

\* The worker of job j has ended with completed and the table holds the
\* record it left: completed, with video_path, file_size and clips_used.
WorkerCompletedRecord(j) ==
  /\ pc[j] = "done" /\ wlast[j] = "completed"
  /\ video_status[j].status = "completed"
  /\ video_status[j].video_path = VideoPath(j)
  /\ video_status[j].file_size # 0 - 1
  /\ video_status[j].clips_used # 0 - 1

\* C15 (as claimed): when the worker has marked its job completed after a
\* status read took its record and before that read writes, the rest of the
\* read leaves the worker's completed record in the table as it is.
C15_ReadKeepsWorkerRecord ==
  [][\A j \in JobIds :
       (/\ WorkerCompletedRecord(j)
        /\ h.op = "status" /\ h.id = j
        /\ h.pc \in {"rd_check", "rd_rewrite", "rd_finish"}
        /\ h'.pc # h.pc)
       => video_status'[j] = video_status[j]]_vars

ReadInProgress == h.op = "status" /\ h.pc \in {"rd_check", "rd_rewrite", "rd_finish"}

\* C16: a status read begins only when no handler is between two of its
\* steps; while a read is between its lookup and its return, every step of
\* a handler is the next step of that read, and every other change of the
\* table is the write of a worker thread: no other read's steps come in
\* between.
C16_ReadsDoNotInterleave ==
  [][/\ (h'.op = "status" /\ h'.pc = "rd_check" /\ h.pc # "rd_check") => h.pc = "idle"
     /\ ReadInProgress
        => (/\ h'.op = "status" /\ h'.id = h.id
            /\ h'.pc # h.pc
               => <<h.pc, h'.pc>> \in {<<"rd_check", "reply">>, <<"rd_check", "rd_rewrite">>,
                                       <<"rd_rewrite", "rd_finish">>, <<"rd_finish", "reply">>}
            /\ (h'.pc = h.pc /\ store' # store) => pc' # pc)]_vars

\* A second reconciliation of the same job: the record the read took carries
\* the file_size an earlier reconciliation left on it.
C16_Witness ==
  /\ h.op = "status" /\ h.pc = "rd_rewrite"
  /\ h.id \in JobIds
  /\ h.status.status = "processing"
  /\ h.status.file_size > RecoveryMinSize

\* The step of worker j that finds no usable clip: no stock video is left
\* after the search, or the clip loop ends with no clip downloaded.
ZeroClipsStep(j) ==
  /\ pc'[j] # pc[j]
  /\ \/ pc[j] = "probe_audio" /\ wl[j].stock_videos = <<>>
     \/ pc[j] = "download" /\ pc'[j] # "clips_list"

\* The worker ends on an exception that has nothing to do with the clips.
EndsOnException(j) ==
  /\ pc'[j] = "done"
  /\ video_status'[j].error \in {ProcessingError(t) : t \in ExceptionTexts}

\* C17: the step that finds no usable clip leaves the job processing and
\* goes to the static branch; from there the worker builds the thumbnail
\* ("loop") command and runs the encoder on it, unless an unrelated exception
\* ends the job; and the result step of a job that had no clip and completed
\* leaves clips_used = 1 on its completed record.
C17_ZeroClipsStatic ==
  [][\A j \in JobIds :
       /\ ZeroClipsStep(j)
          => \/ pc'[j] = "static" /\ wlast'[j] = "processing" /\ wl'[j].nclips = 0
             \/ EndsOnException(j)
       /\ (pc[j] = "static" /\ pc'[j] # pc[j])
          => (pc'[j] = "ffmpeg" /\ wl'[j].ffmpeg_cmd = "loop")
       /\ (pc[j] = "ffmpeg" /\ pc'[j] # pc[j])
          => \/ /\ pc'[j] = "encoding"
                /\ wl'[j].ffmpeg_cmd = "loop"
                /\ wl'[j].encoder_runs = 1
             \/ EndsOnException(j)
       /\ (pc[j] = "result" /\ pc'[j] = "done" /\ wl[j].nclips = 0)
          => (/\ wl[j].ffmpeg_cmd = "loop" /\ wl[j].encoder_runs = 1
              /\ video_status'[j].status = "completed"
              /\ video_status'[j].clips_used = 1)]_vars

\* A job without any usable clip has been marked completed by its worker.
C17_Witness ==
  \E j \in JobIds :
    /\ pc[j] = "result"
    /\ wl[j].nclips = 0 /\ wl[j].ffmpeg_cmd = "loop" /\ wl[j].encoder_runs = 1
    /\ wlast[j] = "completed"
    /\ video_status[j].status = "completed"

\* C18 (as claimed): a worker that downloaded at least one clip and built
\* the concat command has run the encoder on it before it finalizes, and the
\* clips_used it records on completion is the number of clips downloaded.
C18_DynamicEncodes ==
  \A j \in JobIds :
    (wl[j].nclips >= 1 /\ wl[j].ffmpeg_cmd = "concat")
    => /\ pc[j] \in {"finalizing", "verify", "result"} => wl[j].encoder_runs >= 1
       /\ pc[j] = "result"
          => WorkerResult(j, video_status[j]).clips_used = wl[j].nclips

\* C19 (as claimed): the duration recorded for a downloaded clip is never
\* more than 20 seconds.
C19_ClipDurationCapped ==
  \A j \in JobIds :
    \A i \in 1..Len(wl[j].downloaded_clips) :
      wl[j].downloaded_clips[i].duration <= ClipCap

\* total_clip_duration after the first n clips.
RECURSIVE TotalClipDuration(_, _)
TotalClipDuration(clips, n) ==
  IF n = 0 THEN 0 ELSE TotalClipDuration(clips, n - 1) + clips[n].duration

\* C20: after the clip loop, the total before the last downloaded clip was
\* below the audio duration; when the total has reached the audio duration,
\* the last download attempted is that of the clip that reached it, so no
\* later stock video was tried; otherwise every stock video was tried.
C20_StopsWhenCovered ==
  \A j \in JobIds :
    wl[j].attempts >= 1
    => LET clips == wl[j].downloaded_clips
           n == Len(clips) IN
         /\ wl[j].attempts <= Len(wl[j].stock_videos)
         /\ \A i \in 1..n : clips[i].path <= wl[j].attempts
         /\ n >= 1 => TotalClipDuration(clips, n - 1) < wl[j].audio_duration
         /\ IF TotalClipDuration(clips, n) >= wl[j].audio_duration
            THEN wl[j].attempts = clips[n].path
            ELSE wl[j].attempts = Len(wl[j].stock_videos)

\* The loop stopped with a stock video left untried.
C20_Witness ==
  \E j \in JobIds :
    /\ pc[j] = "clips_list"
    /\ TotalClipDuration(wl[j].downloaded_clips, wl[j].nclips) >= wl[j].audio_duration
    /\ wl[j].attempts < Len(wl[j].stock_videos)

\* C21: no step of the search or of the clip loop writes failed or ends the
\* worker: the search goes on to the audio probe, and the clip loop goes on
\* to the clip list or to the static command, both with status processing.
\* After the loop, a stock video is left untried only when the clips
\* downloaded have reached the audio duration: a failed download is skipped
\* and the next stock video is tried.
C21_AcquisitionBestEffort ==
  [][\A j \in JobIds :
       /\ (pc[j] = "search" /\ pc'[j] # pc[j])
          => (pc'[j] = "probe_audio" /\ wlast'[j] = "processing")
       /\ (pc[j] = "download" /\ pc'[j] # pc[j])
          => (/\ pc'[j] \in {"clips_list", "static"}
              /\ wlast'[j] = "processing"
              /\ video_status'[j].status = "processing"
              /\ \/ wl'[j].attempts = Len(wl[j].stock_videos)
                 \/ TotalClipDuration(wl'[j].downloaded_clips,
                                      Len(wl'[j].downloaded_clips))
                      >= wl[j].audio_duration)]_vars

\* The first download failed and the second stock video was tried and
\* downloaded.
C21_Witness ==
  \E j \in JobIds :
    /\ pc[j] = "clips_list"
    /\ wl[j].attempts = 2
    /\ Len(wl[j].downloaded_clips) = 1
    /\ wl[j].downloaded_clips[1].path = 2
    /\ video_status[j].status = "processing"

\* C22 (as claimed): a worker whose encoder run ends the job leaves one of
\* two errors: that of a non-zero exit, or "Video rendering timed out" when
\* the run exceeded its timeout.
C22_TimeoutError ==
  [][\A j \in JobIds :
       (pc[j] = "encoding" /\ pc'[j] = "done")
       => (/\ video_status'[j].status = "failed"
           /\ video_status'[j].error
                \in {RenderFailedError(stderr) : stderr \in Stderrs}
                    \cup {"Video rendering timed out"})]_vars

RenderFailedPrefix == "Video rendering failed: "

IsRenderFailure(rec) ==
  /\ Len(rec.error) >= Len(RenderFailedPrefix)
  /\ SubSeq(rec.error, 1, Len(RenderFailedPrefix)) = RenderFailedPrefix

\* C23: a record that tells of a non-zero encoder exit has status failed and
\* an error made of the prefix and at most the first 100 characters of the
\* encoder's stderr; the worker that wrote it has ended, so no finalizing or
\* verification runs after it.
C23_RenderFailureExcerpt ==
  \A j \in JobIds :
    /\ (j \in DOMAIN video_status /\ IsRenderFailure(video_status[j]))
       => (/\ video_status[j].status = "failed"
           /\ Len(video_status[j].error) <= Len(RenderFailedPrefix) + 100
           /\ \E stderr \in Stderrs :
                video_status[j].error
                  = RenderFailedPrefix \o SubSeq(stderr, 1, Min(Len(stderr), 100))
           /\ pc[j] = "done" /\ wlast[j] = "failed")
    /\ (j \in DOMAIN status_files /\ IsRenderFailure(status_files[j]))
       => (/\ Len(status_files[j].error) <= Len(RenderFailedPrefix) + 100
           /\ pc[j] = "done" /\ wlast[j] = "failed")

\* The encoder wrote more than 100 characters and the error holds the first
\* 100 of them.
C23_Witness ==
  \E j \in JobIds :
    /\ pc[j] = "done"
    /\ j \in DOMAIN video_status
    /\ video_status[j].error = RenderFailedPrefix \o SubSeq(LongStderr, 1, 100)
    /\ Len(LongStderr) > 100

\* The place of a worker's position in the order of the function: input
\* validation (1-2), footage search and clip download (3-6), the encoder
\* (7-9), verification (10-12), the end (13).
StageRank(p) ==
  CASE p = "none" -> 0
    [] p = "start" -> 1
    [] p = "validate" -> 2
    [] p = "search" -> 3
    [] p = "probe_audio" -> 4
    [] p = "download" -> 5
    [] p = "clips_list" -> 6
    [] p = "static" -> 7
    [] p = "ffmpeg" -> 8
    [] p = "encoding" -> 9
    [] p = "finalizing" -> 10
    [] p = "verify" -> 11
    [] p = "result" -> 12
    [] p = "done" -> 13

\* C24: every step of a worker moves it forward in the order validation,
\* search and download, encoder, verification, so no stage is entered twice;
\* and a worker that has written failed has ended: it takes no further step
\* and writes no further record.
C24_StagesForward ==
  [][\A j \in JobIds :
       /\ pc'[j] # pc[j] => StageRank(pc'[j]) > StageRank(pc[j])
       /\ wlast'[j] # wlast[j] => pc'[j] # pc[j]
       /\ wlast[j] = "failed"
          => (pc[j] = "done" /\ pc'[j] = "done" /\ wlast'[j] = "failed")]_vars

\* A worker that went through every stage and failed at the last one.
C24_Witness ==
  \E j \in JobIds :
    /\ pc[j] = "done" /\ wlast[j] = "failed"
    /\ j \in DOMAIN video_status
    /\ video_status[j].error \in {TooSmallError(size) : size \in FileSizes}

\* C25: a worker that validates its inputs while no thumbnail exists ends at
\* that step with a failed record: with the error "No thumbnail found for
\* video creation" when the script and audio files exist (the thumbnail
\* check is reached), and "Required files not found" when they do not.  It
\* has searched nothing, downloaded nothing and run no encoder, and it
\* leaves the video file as it was.
C25_NoThumbnailFails ==
  [][\A j \in JobIds :
       (pc[j] = "validate" /\ thumbnails = {} /\ pc'[j] # pc[j])
       => (/\ pc'[j] = "done"
           /\ wlast'[j] = "failed"
           /\ video_status'[j].status = "failed"
           /\ video_status'[j].error
                = IF InputsPresent(j) THEN "No thumbnail found for video creation"
                                      ELSE "Required files not found"
           /\ wl[j].stock_videos = <<>> /\ wl[j].attempts = 0
           /\ wl[j].encoder_runs = 0
           /\ video_files' = video_files)]_vars

C25_Witness ==
  \E j \in JobIds :
    /\ pc[j] = "done" /\ wlast[j] = "failed"
    /\ thumbnails = {}
    /\ j \in DOMAIN video_status
    /\ video_status[j].error = "No thumbnail found for video creation"
    /\ video_files[j] = 0

\* C26: once a status read has answered failed for an id, every status read
\* of that id that answers afterwards answers 200 with status failed.
C26_FailedIsFinal ==
  (h.op = "status" /\ h.pc = "reply" /\ failed_reads[h.id] >= 1)
  => (h.code = 200 /\ h.body.status = "failed")

\* A second read of a job has answered failed.
C26_Witness ==
  /\ h.op = "status" /\ h.pc = "reply"
  /\ h.id \in JobIds
  /\ failed_reads[h.id] = 2
  /\ h.body.status = "failed"

\* C27: the encoder is run at most once for a job: a worker that is about to
\* run it has not run it before, and no worker, running or ended, has run it
\* more than once.
C27_EncoderAtMostOnce ==
  \A j \in JobIds :
    /\ wl[j].encoder_runs <= 1
    /\ pc[j] = "ffmpeg" => wl[j].encoder_runs = 0
    /\ pc[j] = "encoding" => wl[j].encoder_runs = 1

\* The one run of the encoder failed and the worker has ended.
C27_Witness ==
  \E j \in JobIds :
    /\ pc[j] = "done" /\ wlast[j] = "failed"
    /\ wl[j].encoder_runs = 1
    /\ j \in DOMAIN video_status
    /\ IsRenderFailure(video_status[j])

\* C28: a worker whose verification fails ends with a failed record whose
\* error names the cause (the file was not created, it is too small, with
\* its size, or it could not be inspected), and the step leaves the video
\* file as it is.
C28_VerificationFailureKeepsFile ==
  [][\A j \in JobIds :
       (pc[j] = "verify" /\ pc'[j] = "done")
       => (/\ wlast'[j] = "failed"
           /\ video_status'[j].status = "failed"
           /\ \/ video_status'[j].error = "Could not verify video file"
              \/ /\ video_files[j] = 0
                 /\ video_status'[j].error = "Video file was not created"
              \/ /\ video_files[j] # 0 /\ video_files[j] < WorkerMinSize
                 /\ video_status'[j].error = TooSmallError(video_files[j])
           /\ video_files' = video_files)]_vars

\* The file that was too small is still there after the job failed.
C28_Witness ==
  \E j \in JobIds :
    /\ pc[j] = "done" /\ wlast[j] = "failed"
    /\ video_files[j] # 0
    /\ j \in DOMAIN video_status
    /\ video_status[j].error = TooSmallError(video_files[j])

\* A download request is taken up in this step.
DownloadStep == h.pc = "idle" /\ h'.op = "download"

\* The file the request names exists when the request is served.
RequestedFileExists ==
  \/ h'.file_type = "script" /\ h'.file_id \in scripts
  \/ h'.file_type = "audio" /\ h'.file_id \in audio
  \/ h'.file_type = "thumbnail" /\ h'.file_id \in thumbnails
  \/ /\ h'.file_type = "video"
     /\ \E v \in VideoIds :
          /\ "generated_content/videos/" \o h'.file_id \o ".mp4" = VideoPath(v)
          /\ video_files[v] # 0

\* C29: a download of a type other than script, audio, thumbnail and video
\* is answered 400, and a download of one of these types whose file does not
\* exist is answered 404; no download is answered 500, and the request
\* changes nothing but the handler.
C29_DownloadErrors ==
  [][DownloadStep
     => (/\ h'.pc = "reply"
         /\ h'.file_type \notin {"script", "audio", "thumbnail", "video"}
            => h'.code = 400
         /\ (h'.file_type \in {"script", "audio", "thumbnail", "video"}
             /\ ~RequestedFileExists)
            => h'.code = 404
         /\ h'.code \in {200, 400, 404}
         /\ UNCHANGED <<inputs, store, video_files, worker>>)]_vars

\* The video of a job was asked for before any file was written for it.
C29_Witness ==
  /\ h.op = "download" /\ h.pc = "reply"
  /\ h.file_type = "video" /\ h.file_id = "1"
  /\ h.code = 404
  /\ 1 \in DOMAIN video_status

\* C30: a download of a known type whose file exists is answered 200 with
\* the content type and the file name of the type: text/plain and <id>.txt
\* for a script, audio/mpeg and <id>.mp3 for audio, image/png and <id>.png
\* for a thumbnail, video/mp4 and <id>.mp4 for a video.
C30_DownloadContentTypes ==
  [][(DownloadStep /\ RequestedFileExists)
     => (/\ h'.pc = "reply" /\ h'.code = 200
         /\ <<h'.file_type, h'.media_type, h'.filename>>
              \in {<<"script", "text/plain", h'.file_id \o ".txt">>,
                   <<"audio", "audio/mpeg", h'.file_id \o ".mp3">>,
                   <<"thumbnail", "image/png", h'.file_id \o ".png">>,
                   <<"video", "video/mp4", h'.file_id \o ".mp4">>})]_vars

\* The audio of a script is served.
C30_Witness ==
  /\ h.op = "download" /\ h.pc = "reply" /\ h.code = 200
  /\ h.file_type = "audio"
  /\ h.media_type = "audio/mpeg" /\ h.filename = "s1.mp3"

\* C31 (as claimed): a status read answers completed for a job only when the
\* job's worker has verified the output and written completed itself; in
\* particular not while the encoder is running.
C31_CompletedOnlyAfterVerification ==
  (h.op = "status" /\ h.pc = "reply" /\ h.id \in JobIds
   /\ h.body.status = "completed")
  => (pc[h.id] \in {"result", "done"} /\ wlast[h.id] = "completed")

\* C32 (as claimed): a record of the table that has status completed keeps
\* that status through every later write.
C32_CompletedStays ==
  [][\A id \in DOMAIN video_status :
       (video_status[id].status = "completed" /\ id \in DOMAIN video_status')
       => video_status'[id].status = "completed"]_vars

\* C33 (as claimed): a worker enters the finalizing stage only from an
\* encoder run that has exited with code 0.
C33_FinalizingAfterEncoder ==
  [][\A j \in JobIds :
       (pc'[j] = "finalizing" /\ pc[j] # "finalizing")
       => (pc[j] = "encoding" /\ wl[j].encoder_runs = 1)]_vars

\* C34 (as claimed): every response of a status read with status completed
\* has an empty error.
C34_CompletedHasNoError ==
  (h.op = "status" /\ h.pc = "reply" /\ h.body.status = "completed")
  => h.body.error = ""

\* C35 (as claimed): when the worker of a job has ended and no status read is
\* in progress, the status file of the job holds the record the table holds.
C35_PersistedEqualsMemory ==
  \A j \in JobIds :
    (pc[j] = "done" /\ ~ReadInProgress)
    => (/\ j \in DOMAIN video_status
        /\ j \in DOMAIN status_files
        /\ status_files[j] = video_status[j])

\* C36: a status read writes nothing unless the recovery applies. Its lookup
\* leaves every record of the table and every status file as it is (a record
\* loaded from its status file is entered in the table as loaded); and when
\* the record it holds is completed, or the video file is absent, or the file
\* has 50000 bytes or fewer, its next step answers 200 with that record and
\* changes neither the table nor the status files.
C36_ReadWritesNothing ==
  [][/\ (h.pc = "idle" /\ h'.op = "status")
        => /\ status_files' = status_files
           /\ \A id \in DOMAIN video_status :
                 id \in DOMAIN video_status' /\ video_status'[id] = video_status[id]
           /\ \A id \in DOMAIN video_status' \ DOMAIN video_status :
                 video_status'[id] = status_files[id]
     /\ (/\ h.op = "status" /\ h.pc = "rd_check" /\ h'.pc # "rd_check"
         /\ \/ h.status.status = "completed"
            \/ video_files[h.id] = 0
            \/ video_files[h.id] <= RecoveryMinSize)
        => /\ h'.pc = "reply" /\ h'.code = 200
           /\ h'.body = h.status
           /\ h.alias => h'.body = video_status'[h.id]
           /\ video_status' = video_status
           /\ status_files' = status_files]_vars

\* A read has answered a processing or failed record as it is while the video
\* file holds exactly 50000 bytes.
C36_Witness ==
  /\ h.op = "status" /\ h.pc = "reply" /\ h.code = 200
  /\ h.body.status \in {"processing", "failed"}
  /\ video_files[h.id] = RecoveryMinSize
  /\ h.id \in DOMAIN status_files
  /\ video_status[h.id] = h.body

C38_PersistFailureSwallowed ==
  [][persistFails' # persistFails
     => /\ status_files' = status_files
        /\ \E id \in DOMAIN video_status' :
             /\ video_status'[id] =
                  NewRecord(video_status'[id].status, video_status'[id].progress,
                            video_status'[id].message, video_status'[id].error)
             /\ \A o \in DOMAIN video_status \ {id} :
                  o \in DOMAIN video_status' /\ video_status'[o] = video_status[o]
             /\ \/ /\ id \in JobIds
                   /\ pc'[id] # pc[id]
                   /\ wlast'[id] = video_status'[id].status
                   /\ (pc'[id] = "done") <=> (video_status'[id].status = "failed")
                   /\ h'.pc = h.pc
                \/ /\ h'.pc \notin {h.pc, "idle"}
                   /\ h'.id = id
                   /\ h'.code # 500
                   /\ pc' = pc]_vars

\* The write of progress 95 did not reach the status file and the worker is
\* at the verification that follows it.
C38_Witness ==
  \E j \in JobIds :
    /\ persistFails = 1
    /\ pc[j] = "verify"
    /\ video_status[j].progress = 95
    /\ j \in DOMAIN status_files
    /\ status_files[j].progress = 80

\* C39: an audio probe that prints nothing or raises does not fail the job:
\* the worker takes 60 seconds as the target duration and goes on to the
\* clip downloads or to the static command; and the result the worker
\* records for a job it completes after such a probe has duration 60.
C39_ProbeFallback ==
  [][\A j \in JobIds :
       /\ (pc[j] = "probe_audio" /\ wl'[j].probe \in {"empty", "exception"})
          => /\ wl'[j].audio_duration = 60
             /\ pc'[j] \in {"download", "static"}
             /\ wlast'[j] = "processing"
             /\ video_status'[j].status = "processing"
       /\ (pc[j] = "result" /\ pc'[j] = "done"
           /\ wl[j].probe \in {"empty", "exception"})
          => /\ wlast'[j] = "completed"
             /\ video_status'[j].duration = 60]_vars

\* A job whose audio probe raised has completed and its record holds
\* duration 60.
C39_Witness ==
  \E j \in JobIds :
    /\ pc[j] = "done"
    /\ wl[j].probe = "exception"
    /\ wlast[j] = "completed"
    /\ video_status[j].status = "completed"
    /\ video_status[j].duration = 60

====
